---- MODULE Spec2Model ----
(***************************************************************************)
(* A model of the soup query library: patterns (src/src/pattern.rs), the   *)
(* list-aware attribute matcher (src/src/attribute.rs), the predicate      *)
(* chain, the query builder and the traversal iterator (src/src/find.rs).  *)
(*                                                                         *)
(* Strings are sequences of characters; a character is a one-character     *)
(* string, or the code point name ("U+00A0") of a non-ASCII character.     *)
(***************************************************************************)
EXTENDS Integers, Sequences, FiniteSets, TLC

(***************************************************************************)
(* Bounds of the model.                                                    *)
(***************************************************************************)
\* number of nodes of a parsed tree, the Document node included
MaxNodes == 4
\* largest value passed to limit()
MaxLimit == 2
\* largest number of predicates chained on one builder
MaxPreds == 2
\* advances of an iterator after the one that first reported exhaustion
MaxExtra == 1
\* longest generated attribute value
MaxValLen == 3

(***************************************************************************)
(* Characters and strings.                                                 *)
(***************************************************************************)
\* char::is_whitespace: the code points with the Unicode White_Space property
UnicodeWhitespace ==
    { "\t", "\n", "U+000B", "\f", "\r", " ", "U+0085", "U+00A0", "U+1680",
      "U+2000", "U+2001", "U+2002", "U+2003", "U+2004", "U+2005", "U+2006",
      "U+2007", "U+2008", "U+2009", "U+200A", "U+2028", "U+2029", "U+202F",
      "U+205F", "U+3000" }

\* the subset that HTML calls ASCII whitespace: TAB, LF, FF, CR, SPACE
AsciiWhitespace == { "\t", "\n", "\f", "\r", " " }

is_whitespace(c) == c \in UnicodeWhitespace

Upper == << "A", "B", "C", "D", "E", "F", "G", "H", "I", "J", "K", "L", "M",
            "N", "O", "P", "Q", "R", "S", "T", "U", "V", "W", "X", "Y", "Z" >>
Lower == << "a", "b", "c", "d", "e", "f", "g", "h", "i", "j", "k", "l", "m",
            "n", "o", "p", "q", "r", "s", "t", "u", "v", "w", "x", "y", "z" >>

char_to_lowercase(c) ==
    IF \E i \in 1..Len(Upper) : Upper[i] = c
    THEN Lower[CHOOSE i \in 1..Len(Upper) : Upper[i] = c]
    ELSE c

\* str::to_lowercase
to_lowercase(s) == [i \in 1..Len(s) |-> char_to_lowercase(s[i])]

\* str::trim: strips leading and trailing White_Space characters
trim(s) ==
    LET keep == { i \in 1..Len(s) : ~is_whitespace(s[i]) }
    IN  IF keep = {} THEN << >>
        ELSE LET lo == CHOOSE i \in keep : \A j \in keep : i <= j
                 hi == CHOOSE i \in keep : \A j \in keep : j <= i
             IN  SubSeq(s, lo, hi)

\* str::split(char::is_whitespace): the pieces between separators, empty
\* pieces included; the empty string splits into one empty piece
RECURSIVE split(_)
split(s) ==
    LET seps == { i \in 1..Len(s) : is_whitespace(s[i]) }
    IN  IF seps = {} THEN << s >>
        ELSE LET i == CHOOSE k \in seps : \A j \in seps : k <= j
             IN  << SubSeq(s, 1, i - 1) >> \o split(SubSeq(s, i + 1, Len(s)))

(***************************************************************************)
(* Names the attribute matcher compares with (src/src/attribute.rs:6-20).  *)
(***************************************************************************)
S_class == << "c", "l", "a", "s", "s" >>
S_accesskey == << "a", "c", "c", "e", "s", "s", "k", "e", "y" >>
S_dropzone == << "d", "r", "o", "p", "z", "o", "n", "e" >>
S_a == << "a" >>
S_link == << "l", "i", "n", "k" >>
S_rel == << "r", "e", "l" >>
S_rev == << "r", "e", "v" >>
S_tr == << "t", "r" >>
S_th == << "t", "h" >>
S_headers == << "h", "e", "a", "d", "e", "r", "s" >>
S_form == << "f", "o", "r", "m" >>
S_accept_charset ==
    << "a", "c", "c", "e", "p", "t", "-", "c", "h", "a", "r", "s", "e", "t" >>
S_object == << "o", "b", "j", "e", "c", "t" >>
S_archive == << "a", "r", "c", "h", "i", "v", "e" >>
S_area == << "a", "r", "e", "a" >>
S_icon == << "i", "c", "o", "n" >>
S_sizes == << "s", "i", "z", "e", "s" >>
S_iframe == << "i", "f", "r", "a", "m", "e" >>
S_sandbox == << "s", "a", "n", "d", "b", "o", "x" >>
S_output == << "o", "u", "t", "p", "u", "t" >>
S_for == << "f", "o", "r" >>

(***************************************************************************)
(* Patterns (src/src/pattern.rs).                                          *)
(***************************************************************************)
BoolPattern(b) == [s |-> << >>, b |-> b, type |-> "bool"]
StrPattern(s) == [s |-> s, b |-> FALSE, type |-> "str"]

Pattern_matches(p, haystack) ==
    IF p.type = "bool" THEN p.b ELSE p.s = haystack

(***************************************************************************)
(* The list-aware attribute matcher (src/src/attribute.rs).                *)
(***************************************************************************)
\* mutant: the names compared as they are, without to_lowercase
is_multiple_case_sensitive(tag_name, attr_name) ==
    LET t == tag_name
        a == attr_name
    IN  \/ a = S_class
        \/ a = S_accesskey
        \/ a = S_dropzone
        \/ t = S_a /\ a = S_rel
        \/ t = S_a /\ a = S_rev
        \/ t = S_link /\ a = S_rel
        \/ t = S_link /\ a = S_rev
        \/ t = S_tr /\ a = S_headers
        \/ t = S_th /\ a = S_headers
        \/ t = S_form /\ a = S_accept_charset
        \/ t = S_object /\ a = S_archive
        \/ t = S_area /\ a = S_rel
        \/ t = S_icon /\ a = S_sizes
        \/ t = S_iframe /\ a = S_sandbox
        \/ t = S_output /\ a = S_for

is_multiple(tag_name, attr_name) ==
    LET t == to_lowercase(tag_name)
        a == to_lowercase(attr_name)
    IN  \/ a = S_class
        \/ a = S_accesskey
        \/ a = S_dropzone
        \/ t = S_a /\ a = S_rel
        \/ t = S_a /\ a = S_rev
        \/ t = S_link /\ a = S_rel
        \/ t = S_link /\ a = S_rev
        \/ t = S_tr /\ a = S_headers
        \/ t = S_th /\ a = S_headers
        \/ t = S_form /\ a = S_accept_charset
        \/ t = S_object /\ a = S_archive
        \/ t = S_area /\ a = S_rel
        \/ t = S_icon /\ a = S_sizes
        \/ t = S_iframe /\ a = S_sandbox
        \/ t = S_output /\ a = S_for

\* mutant: the parts compared ignoring letter case
match_list_attr_ignoring_case(needle, haystack) ==
    LET parts == split(haystack)
    IN  \E i \in 1..Len(parts) :
           IF needle.type = "bool" THEN needle.b
           ELSE to_lowercase(needle.s) = to_lowercase(trim(parts[i]))

match_list_attr(needle, haystack) ==
    LET parts == split(haystack)
    IN  \E i \in 1..Len(parts) : Pattern_matches(needle, trim(parts[i]))

\* mutant: the name matched on one attribute, the value on any attribute
list_aware_match_any_value(node, attr_name, attr_value) ==
    /\ node.kind = "Element"
    /\ \E i \in 1..Len(node.attrs) : Pattern_matches(attr_name, node.attrs[i].name)
    /\ \E i \in 1..Len(node.attrs) :
          IF is_multiple(node.name, node.attrs[i].name)
          THEN match_list_attr(attr_value, node.attrs[i].value)
          ELSE Pattern_matches(attr_value, node.attrs[i].value)

\* node is the node's data: [kind, name, attrs]
list_aware_match(node, attr_name, attr_value) ==
    /\ node.kind = "Element"
    /\ \E i \in 1..Len(node.attrs) :
          LET k == node.attrs[i].name
              v == node.attrs[i].value
          IN  /\ Pattern_matches(attr_name, k)
              /\ IF is_multiple(node.name, k)
                 THEN match_list_attr(attr_value, v)
                 ELSE Pattern_matches(attr_value, v)

(***************************************************************************)
(* Options (Option<T>).                                                    *)
(***************************************************************************)
Some(x) == [v |-> x, some |-> TRUE]
NoneOpt == [v |-> 0, some |-> FALSE]

(***************************************************************************)
(* State.                                                                  *)
(***************************************************************************)
VARIABLES
    dom,    \* the parsed tree: node -> [data, children, parent]
    qb,     \* the QueryBuilder of the current query
    it,     \* the iterator into_iter built from qb
    out,    \* the handles the iterator has yielded, oldest first
    last,   \* what the latest advance of the iterator returned
    exhausted, \* the advances of the iterator that reported exhaustion
    found,  \* what find() returned
    pc,     \* "build": chaining; "iter": find_all() called; "found": find() called
    it2,    \* a second iterator into_iter built from the same qb
    out2,   \* the handles the second iterator has yielded, oldest first
    walk,   \* a NodeParentIter or NodeChildIter
    seen,   \* where walk started, what it has yielded and how often it ended
    called  \* the latest call of a NodeExt method and what it returned

vars == << dom, qb, it, out, last, exhausted, found, pc, it2, out2, walk, seen, called >>

\* the state of the node operations, and what a single query leaves alone
nodeops == << walk, seen, called >>
others == << it2, out2, nodeops >>
\* the state of the queries
querying == << qb, it, out, last, exhausted, found, pc, it2, out2 >>

Nodes == 1..MaxNodes
\* Soup::handle.document
Document == 1

data(h) == dom[h].data
children(h) == dom[h].children

(***************************************************************************)
(* Query predicates (src/src/find.rs:7-160).                               *)
(***************************************************************************)
\* a query carries the fields of its type; the others hold NoPattern
NoPattern == [s |-> << >>, b |-> FALSE, type |-> "none"]
TagQuery_new(inner) ==
    [type |-> "TagQuery", value |-> NoPattern, inner |-> inner, key |-> NoPattern]
AttrQuery_new(key, value) ==
    [type |-> "AttrQuery", value |-> value, inner |-> NoPattern, key |-> key]
Unit == [type |-> "Unit", value |-> NoPattern, inner |-> NoPattern, key |-> NoPattern]

\* mutant: the pattern tested on a node of any variant
TagQuery_matches_any_variant(q, node) == Pattern_matches(q.inner, node.name)

TagQuery_matches(q, node) ==
    IF node.kind = "Element" THEN Pattern_matches(q.inner, node.name) ELSE FALSE

AttrQuery_matches(q, node) == list_aware_match(node, q.key, q.value)

\* mutant: () matches Elements only
Unit_matches_elements(node) == node.kind = "Element"

Unit_matches(node) == TRUE

Query_matches(q, node) ==
    CASE q.type = "TagQuery" -> TagQuery_matches(q, node)
      [] q.type = "AttrQuery" -> AttrQuery_matches(q, node)
      [] q.type = "Unit" -> Unit_matches(node)

\* A QueryWrapper is the sequence of its queries, the latest first and the
\* base () last: Head is .inner, Tail is .next (None when Tail is empty).
EmptyQueryWrapper_new == << Unit >>
QueryWrapper_wrap(inner, query) == << inner >> \o query

RECURSIVE QueryWrapper_matches(_, _)
\* mutant: the latest query alone decides
QueryWrapper_matches_latest_only(w, node) == Query_matches(Head(w), node)

QueryWrapper_matches(w, node) ==
    LET inner_match == Query_matches(Head(w), node)
    IN  IF Tail(w) # << >>
        THEN LET next_match == QueryWrapper_matches(Tail(w), node)
             IN  next_match /\ inner_match
        ELSE inner_match

\* the queries whose matches() one call of QueryWrapper::matches on node
\* runs, in the order of the calls: inner's, then, whatever inner returned,
\* those that next.matches(node) runs
RECURSIVE QueryWrapper_calls(_, _)
QueryWrapper_calls(w, node) ==
    LET inner_call == << Head(w) >>
    IN  IF Tail(w) # << >>
        THEN inner_call \o QueryWrapper_calls(Tail(w), node)
        ELSE inner_call

(***************************************************************************)
(* QueryBuilder (src/src/find.rs:177-407).                                 *)
(***************************************************************************)
QueryBuilder_new(handle) ==
    [handle |-> handle, queries |-> EmptyQueryWrapper_new,
     limit |-> NoneOpt, recursive |-> TRUE]

QueryBuilder_limit(self, limit) == [self EXCEPT !.limit = Some(limit)]

\* mutant: the new builder made with the options of QueryBuilder::new
push_query_default_options(self, query) ==
    [handle |-> self.handle,
     queries |-> QueryWrapper_wrap(query, self.queries),
     limit |-> NoneOpt,
     recursive |-> TRUE]

push_query(self, query) ==
    [handle |-> self.handle,
     queries |-> QueryWrapper_wrap(query, self.queries),
     limit |-> self.limit,
     recursive |-> self.recursive]

QueryBuilder_tag(self, tag) == push_query(self, TagQuery_new(tag))
QueryBuilder_attr_name(self, name) ==
    push_query(self, AttrQuery_new(name, BoolPattern(TRUE)))
QueryBuilder_attr_value(self, value) ==
    push_query(self, AttrQuery_new(BoolPattern(TRUE), value))
QueryBuilder_attr(self, name, value) == push_query(self, AttrQuery_new(name, value))
QueryBuilder_class(self, value) == QueryBuilder_attr(self, StrPattern(S_class), value)
QueryBuilder_recursive(self, recursive) == [self EXCEPT !.recursive = recursive]

(***************************************************************************)
(* The traversal (src/src/find.rs:409-492).                                *)
(***************************************************************************)
U8Modulus == 256

NodeIterator_new(handle) == [handle |-> handle, done |-> FALSE]

\* mutant: the levels handed down undiminished
levels_unchanged(levels) == levels

\* levels.map(|l| l - 1) on Option<u8>
levels_minus_one(levels) ==
    IF levels.some THEN Some((levels.v - 1) % U8Modulus) ELSE NoneOpt

\* The chain build_iter returns, as the sequence of its NodeIterators in the
\* order Chain consumes them.
RECURSIVE build_iter(_, _)
RECURSIVE fold_children(_, _, _)
\* mutant: the children folded from the last to the first
fold_children_reversed(acc, kids, levels) ==
    IF kids = << >> THEN acc
    ELSE LET child_iter == build_iter(kids[Len(kids)], levels_minus_one(levels))
         IN  fold_children(acc \o child_iter, SubSeq(kids, 1, Len(kids) - 1), levels)

fold_children(acc, kids, levels) ==
    IF kids = << >> THEN acc
    ELSE LET child_iter == build_iter(Head(kids), levels_minus_one(levels))
         IN  fold_children(acc \o child_iter, Tail(kids), levels)

\* mutant: a node's own iterator chained after those of its children
build_iter_children_first(handle, levels) ==
    LET iter == << NodeIterator_new(handle) >>
    IN  IF levels.some /\ levels.v = 0
        THEN iter
        ELSE fold_children(<< >>, children(handle), levels) \o iter

build_iter(handle, levels) ==
    LET iter == << NodeIterator_new(handle) >>
    IN  IF levels.some /\ levels.v = 0
        THEN iter
        ELSE fold_children(iter, children(handle), levels)

\* The invocations of build_iter that one call makes, itself first, each
\* with the handle and the levels it was given.
RECURSIVE build_iter_calls(_, _)
RECURSIVE fold_children_calls(_, _)
\* mutant: no return at l == 0
build_iter_calls_no_return(handle, levels) ==
    << [handle |-> handle, levels |-> levels] >>
        \o fold_children_calls(children(handle), levels)

build_iter_calls(handle, levels) ==
    LET call == << [handle |-> handle, levels |-> levels] >>
    IN  IF levels.some /\ levels.v = 0
        THEN call
        ELSE call \o fold_children_calls(children(handle), levels)

fold_children_calls(kids, levels) ==
    IF kids = << >> THEN << >>
    ELSE build_iter_calls(Head(kids), levels_minus_one(levels))
            \o fold_children_calls(Tail(kids), levels)

\* mutant: take(limit + 1)
into_iter_take_one_more(self) ==
    LET recurse_levels == IF self.recursive THEN NoneOpt ELSE Some(1)
    IN  [queries |-> self.queries,
         chain |-> build_iter(self.handle, recurse_levels),
         cur |-> 1,
         n |-> IF self.limit.some THEN Some(self.limit.v + 1) ELSE NoneOpt,
         evals |-> << >>]

\* mutant: the chain built from the document, whatever the builder's handle
into_iter_from_document(self) ==
    LET recurse_levels == IF self.recursive THEN NoneOpt ELSE Some(1)
    IN  [queries |-> self.queries,
         chain |-> build_iter(Document, recurse_levels),
         cur |-> 1,
         n |-> self.limit,
         evals |-> << >>]

\* IntoIterator::into_iter: flat_map over the chain, then take(limit)
into_iter(self) ==
    LET recurse_levels == IF self.recursive THEN NoneOpt ELSE Some(1)
    IN  [queries |-> self.queries,
         chain |-> build_iter(self.handle, recurse_levels),
         cur |-> 1,
         n |-> self.limit,
         evals |-> << >>]

\* NodeIterator::next: [done, ret]; ret is None, Some(None) or Some(Some(h))
NodeIterator_next(self, queries) ==
    IF self.done
    THEN [done |-> TRUE, ret |-> NoneOpt]
    ELSE IF QueryWrapper_matches(queries, data(self.handle))
         THEN [done |-> TRUE, ret |-> Some(Some(self.handle))]
         ELSE [done |-> TRUE, ret |-> Some(NoneOpt)]

\* FlatMap::next over Chain::next: advance the chain until a NodeIterator
\* returns Some(Some(h)) or the chain is exhausted
RECURSIVE FlatMap_next(_)
FlatMap_next(self) ==
    IF self.cur > Len(self.chain)
    THEN [iter |-> self, ret |-> NoneOpt]
    ELSE LET ni == self.chain[self.cur]
             r == NodeIterator_next(ni, self.queries)
             stepped == [self EXCEPT
                            !.chain[self.cur].done = r.done,
                            !.evals = IF ni.done THEN @ ELSE Append(@, ni.handle)]
         IN  IF ~r.ret.some
             THEN FlatMap_next([stepped EXCEPT !.cur = @ + 1])
             ELSE IF r.ret.v.some
                  THEN [iter |-> stepped, ret |-> r.ret.v]
                  ELSE FlatMap_next(stepped)

\* mutant: Take advances the inner iterator before it looks at its count
Iterator_next_counts_after(self) ==
    IF self.n.some
    THEN LET r == FlatMap_next(self)
         IN  IF self.n.v # 0
             THEN [iter |-> [r.iter EXCEPT !.n = Some(@.v - 1)], ret |-> r.ret]
             ELSE [iter |-> r.iter, ret |-> NoneOpt]
    ELSE FlatMap_next(self)

\* Take::next when a limit is set, FlatMap::next otherwise
Iterator_next(self) ==
    IF self.n.some
    THEN IF self.n.v # 0
         THEN LET r == FlatMap_next([self EXCEPT !.n = Some(@.v - 1)])
              IN  r
         ELSE [iter |-> self, ret |-> NoneOpt]
    ELSE FlatMap_next(self)

\* mutant: nth(1) instead of nth(0)
QueryBuilder_find_nth_one(self) ==
    LET limited == [self EXCEPT !.limit = Some(1)]
        first == Iterator_next(into_iter(limited))
    IN  Iterator_next(first.iter)

\* QueryBuilder::find: [iter, ret]
QueryBuilder_find(self) ==
    LET limited == [self EXCEPT !.limit = Some(1)]
    IN  Iterator_next(into_iter(limited))

QueryBuilder_find_all(self) == into_iter(self)

NoIter == [queries |-> << Unit >>, chain |-> << >>, cur |-> 1, n |-> NoneOpt,
           evals |-> << >>]

NumPreds(b) == Len(b.queries) - 1

(***************************************************************************)
(* Parsed trees.  The parser makes node 1 the Document; only the Document  *)
(* and Elements have children; a child list is in document order.          *)
(***************************************************************************)
NodeData(kind, name, attrs, contents) ==
    [kind |-> kind, attrs |-> attrs, name |-> name, contents |-> contents]
Attribute(name, value) == [name |-> name, value |-> value]

DocumentData == NodeData("Document", << >>, << >>, << >>)
DoctypeData == NodeData("Doctype", << "h", "t", "m", "l" >>, << >>, << >>)
TextData == NodeData("Text", << >>, << >>, << "t" >>)
CommentData == NodeData("Comment", << >>, << >>, << "c" >>)
PIData == NodeData("ProcessingInstruction", << >>, << >>, << "p" >>)
Element(name, attrs) == NodeData("Element", name, attrs, << >>)

\* the shapes: node n > 1 hangs below an earlier node
Shapes == { par \in [2..MaxNodes -> 1..(MaxNodes - 1)] : \A n \in 2..MaxNodes : par[n] < n }

RECURSIVE Ascending(_)
Ascending(S) ==
    IF S = {} THEN << >>
    ELSE LET m == CHOOSE x \in S : \A y \in S : x <= y
         IN  << m >> \o Ascending(S \ {m})

\* the tree of shape par whose node n carries lab[n]
Tree(par, lab) ==
    [n \in Nodes |->
        [data |-> IF n = Document THEN DocumentData ELSE lab[n],
         children |-> Ascending({ c \in 2..MaxNodes : par[c] = n }),
         parent |-> IF n = Document THEN NoneOpt ELSE Some(par[n])]]

\* the trees whose childless nodes carry data of leaves and whose other nodes
\* below the Document carry data of inner
Trees(leaves, inner) ==
    { Tree(par, lab) : par \in Shapes, lab \in [2..MaxNodes -> leaves \cup inner] }

WellFormed(t, leaves, inner) ==
    \A n \in 2..MaxNodes :
        /\ t[n].children # << >> => t[n].data \in inner /\ t[n].data.kind = "Element"
        /\ t[n].children = << >> => t[n].data \in leaves
        /\ t[n].data.kind = "Doctype" => t[n].parent = Some(Document)

(***************************************************************************)
(* Node navigation (src/src/node_ext.rs:218-224, src/src/qb_ext.rs:104-195)*)
(***************************************************************************)
\* The Soup owns the document, and a node owns its children: a node is alive
\* while an owned handle reaches it through child lists.  The caller keeps
\* the Soup for as long as it uses handles of its tree.
Owned == {Document}

RECURSIVE Reaches(_, _)
Reaches(h, n) ==
    \/ h = n
    \/ \E i \in 1..Len(children(h)) : Reaches(children(h)[i], n)

Alive(n) == \E h \in Owned : Reaches(h, n)

\* Weak::upgrade of a parent back-reference: none once the parent is dropped
Weak_upgrade(weak) == IF weak.some /\ Alive(weak.v) THEN Some(weak.v) ELSE NoneOpt

\* NodeExt::parent
NodeExt_parent(h) == Weak_upgrade(dom[h].parent)

\* NodeExt::parent, its first statement: node.parent.take() leaves None in
\* the cell of node h; what was in the cell is the caller's local `parent`
NodeExt_parent_take(h) == [dom EXCEPT ![h].parent = NoneOpt]

\* mutant: the parent taken is not put back
NodeExt_parent_set_nothing(h, parent) == dom

\* NodeExt::parent, node.parent.set(parent)
NodeExt_parent_set(h, parent) == [dom EXCEPT ![h].parent = parent]

NodeParentIter_new(handle) == [kind |-> "parents", inner |-> handle, idx |-> 0]

\* mutant: the walk yields the node it stands on before it moves up
NodeParentIter_next_yields_inner(self) ==
    LET parent == NodeExt_parent(self.inner)
    IN  IF parent.some
        THEN [iter |-> [self EXCEPT !.inner = parent.v], ret |-> Some(self.inner)]
        ELSE [iter |-> self, ret |-> NoneOpt]

\* NodeParentIter::next: [iter, ret]
NodeParentIter_next(self) ==
    LET parent == NodeExt_parent(self.inner)
    IN  IF parent.some
        THEN [iter |-> [self EXCEPT !.inner = parent.v], ret |-> Some(parent.v)]
        ELSE [iter |-> self, ret |-> NoneOpt]

NodeChildIter_new(handle) == [kind |-> "children", inner |-> handle, idx |-> 0]

NodeChildIter_len(self) == Len(children(self.inner))

\* NodeChildIter::next: children.get(idx).cloned(), then idx += 1
\* NodeChildIter::next leaving the index where it was
NodeChildIter_next_no_advance(self) ==
    LET item == IF self.idx < Len(children(self.inner))
                THEN Some(children(self.inner)[self.idx + 1])
                ELSE NoneOpt
    IN  [iter |-> self, ret |-> item]

NodeChildIter_next(self) ==
    LET item == IF self.idx < Len(children(self.inner))
                THEN Some(children(self.inner)[self.idx + 1])
                ELSE NoneOpt
    IN  [iter |-> [self EXCEPT !.idx = @ + 1], ret |-> item]

\* NodeChildIter::size_hint: << lower, upper >>
NodeChildIter_size_hint(self) == << 0, Some(NodeChildIter_len(self)) >>

\* Option<String>::None
NoneString == [v |-> << >>, some |-> FALSE]

\* the loop of NodeExt::get over attrs from position i on, comparing names
\* as they are written
RECURSIVE get_from_case_sensitive(_, _, _)
get_from_case_sensitive(attrs, i, attr) ==
    IF i > Len(attrs) THEN NoneString
    ELSE IF attrs[i].name = attr THEN Some(attrs[i].value)
    ELSE get_from_case_sensitive(attrs, i + 1, attr)

\* NodeExt::get comparing names as they are written
NodeExt_get_case_sensitive(h, attr) ==
    IF data(h).kind = "Element"
    THEN get_from_case_sensitive(data(h).attrs, 1, attr)
    ELSE NoneString

\* the loop of NodeExt::get over attrs from position i on
RECURSIVE get_from(_, _, _)
get_from(attrs, i, attr) ==
    IF i > Len(attrs) THEN NoneString
    ELSE IF to_lowercase(attrs[i].name) = to_lowercase(attr)
         THEN Some(attrs[i].value)
         ELSE get_from(attrs, i + 1, attr)

NodeExt_get(h, attr) ==
    IF data(h).kind = "Element"
    THEN get_from(data(h).attrs, 1, attr)
    ELSE NoneString

\* [String]::join with the empty separator
RECURSIVE join_empty(_)
join_empty(result) ==
    IF result = << >> THEN << >> ELSE Head(result) \o join_empty(Tail(result))

\* extract_text: what it pushes on result, in the order of the pushes
RECURSIVE extract_text(_)
RECURSIVE extract_text_children(_, _)
extract_text(h) ==
    LET own == IF data(h).kind = "Text" THEN << data(h).contents >> ELSE << >>
    IN  own \o extract_text_children(children(h), 1)
extract_text_children(kids, i) ==
    IF i > Len(kids) THEN << >>
    ELSE extract_text(kids[i]) \o extract_text_children(kids, i + 1)

\* NodeExt::text trimming what it joined
NodeExt_text_trimmed(h) == trim(join_empty(extract_text(h)))

NodeExt_text(h) == join_empty(extract_text(h))

NoWalk == [kind |-> "none", inner |-> Document, idx |-> 0]
NoSeen == [start |-> Document, items |-> << >>, nones |-> 0]
NoCall == [node |-> Document, value |-> NoneString, method |-> "none", arg |-> << >>]

(***************************************************************************)
(* Operations.  A query starts at the document (QueryBuilderExt for Soup)  *)
(* or at a handle an earlier query returned (QueryBuilderExt for Handle).  *)
(***************************************************************************)
InitOn(leaves, inner) ==
    /\ dom \in { t \in Trees(leaves, inner) : WellFormed(t, leaves, inner) }
    /\ qb = QueryBuilder_new(Document)
    /\ it = NoIter
    /\ out = << >>
    /\ last = NoneOpt
    /\ exhausted = 0
    /\ found = NoneOpt
    /\ pc = "build"
    /\ it2 = NoIter
    /\ out2 = << >>
    /\ walk = NoWalk
    /\ seen = NoSeen
    /\ called = NoCall

\* a chaining method: the builder it returns replaces the one it consumed.
\* A caller chains at most MaxPreds predicates and no predicate twice.
Chain(b) ==
    /\ pc = "build"
    /\ qb' = b
    /\ UNCHANGED << dom, it, out, last, exhausted, found, pc, others >>

MayPush(q) ==
    /\ NumPreds(qb) < MaxPreds
    /\ \A i \in 1..Len(qb.queries) : qb.queries[i] # q

Tag(p) == MayPush(TagQuery_new(p)) /\ Chain(QueryBuilder_tag(qb, p))
AttrName(k) ==
    MayPush(AttrQuery_new(k, BoolPattern(TRUE))) /\ Chain(QueryBuilder_attr_name(qb, k))
AttrValue(v) ==
    MayPush(AttrQuery_new(BoolPattern(TRUE), v)) /\ Chain(QueryBuilder_attr_value(qb, v))
Attr(k, v) == MayPush(AttrQuery_new(k, v)) /\ Chain(QueryBuilder_attr(qb, k, v))
Class(v) ==
    MayPush(AttrQuery_new(StrPattern(S_class), v)) /\ Chain(QueryBuilder_class(qb, v))
Limit(n) == Chain(QueryBuilder_limit(qb, n))
Recursive(b) == Chain(QueryBuilder_recursive(qb, b))

FindAll ==
    /\ pc = "build"
    /\ it' = QueryBuilder_find_all(qb)
    /\ pc' = "iter"
    /\ UNCHANGED << dom, qb, out, last, exhausted, found, others >>

Find ==
    /\ pc = "build"
    /\ LET r == QueryBuilder_find(qb)
       IN  /\ found' = r.ret
           /\ it' = r.iter
    /\ pc' = "found"
    /\ UNCHANGED << dom, qb, out, last, exhausted, others >>

\* one call of next() on the iterator find_all() returned
Advance ==
    /\ pc = "iter"
    /\ exhausted <= MaxExtra
    /\ LET r == Iterator_next(it)
       IN  /\ it' = r.iter
           /\ last' = r.ret
           /\ out' = IF r.ret.some THEN Append(out, r.ret.v) ELSE out
           /\ exhausted' = IF r.ret.some THEN exhausted ELSE exhausted + 1
    /\ UNCHANGED << dom, qb, found, pc, others >>

\* the handles the caller holds: the document and what queries returned
Held == {Document} \cup { out[i] : i \in 1..Len(out) }
                   \cup (IF found.some THEN {found.v} ELSE {})

\* start the next query, at a handle the caller holds
Requery(h) ==
    /\ pc \in {"iter", "found"}
    /\ h \in Held
    /\ qb' = QueryBuilder_new(h)
    /\ it' = NoIter
    /\ out' = << >>
    /\ last' = NoneOpt
    /\ exhausted' = 0
    /\ found' = NoneOpt
    /\ pc' = "build"
    /\ UNCHANGED << dom, others >>

(***************************************************************************)
(* Spec: queries by tag and class over trees of Text and Element nodes.    *)
(***************************************************************************)
S_b == << "b" >>
S_x == << "x" >>
S_y == << "y" >>
S_x_y == << "x", " ", "y" >>

ElementA == Element(S_a, << Attribute(S_class, S_x_y) >>)
ElementB == Element(S_b, << Attribute(S_class, S_y) >>)

Init == InitOn({TextData, ElementA}, {ElementA, ElementB})

Next ==
    \/ Tag(StrPattern(S_a))
    \/ Class(StrPattern(S_y))
    \/ \E n \in 0..MaxLimit : Limit(n)
    \/ \E b \in BOOLEAN : Recursive(b)
    \/ FindAll
    \/ Find
    \/ Advance
    \/ \E h \in Nodes : Requery(h)

Spec == Init /\ [][Next]_vars

(***************************************************************************)
(* What the claims speak of, stated on the tree itself: the subtree of a   *)
(* node and document order are read off the parent back-references.        *)
(***************************************************************************)
RECURSIVE IsAncestorOrSelf(_, _)
IsAncestorOrSelf(a, n) ==
    \/ a = n
    \/ dom[n].parent.some /\ IsAncestorOrSelf(a, dom[n].parent.v)

Subtree(h) == { n \in Nodes : IsAncestorOrSelf(h, n) }

\* the number of parent steps from n up to its ancestor-or-self h
RECURSIVE DepthBelow(_, _)
DepthBelow(h, n) == IF n = h THEN 0 ELSE 1 + DepthBelow(h, dom[n].parent.v)

\* u comes strictly before v in document order: u is a proper ancestor of v,
\* or they lie in different branches and u's branch is the earlier child
Precedes(u, v) ==
    /\ u # v
    /\ \/ IsAncestorOrSelf(u, v)
       \/ /\ ~IsAncestorOrSelf(v, u)
          /\ \E c \in Nodes : \E i, j \in 1..Len(dom[c].children) :
                /\ i < j
                /\ IsAncestorOrSelf(dom[c].children[i], u)
                /\ IsAncestorOrSelf(dom[c].children[j], v)

RECURSIVE InDocumentOrder(_)
InDocumentOrder(S) ==
    IF S = {} THEN << >>
    ELSE LET first == CHOOSE m \in S : \A x \in S \ {m} : Precedes(m, x)
         IN  << first >> \o InDocumentOrder(S \ {first})

\* node n satisfies every predicate chained on builder b
Satisfies(b, n) ==
    \A i \in 1..Len(b.queries) : Query_matches(b.queries[i], data(n))

\* the nodes a query of builder b examines
Scope(b) ==
    IF b.recursive THEN Subtree(b.handle)
    ELSE { n \in Subtree(b.handle) : DepthBelow(b.handle, n) <= 1 }

\* the matches of builder b were no limit set, in document order
Matching(b) == InDocumentOrder({ n \in Scope(b) : Satisfies(b, n) })

Min(a, b) == IF a <= b THEN a ELSE b
IsPrefix(s, t) == Len(s) <= Len(t) /\ s = SubSeq(t, 1, Len(s))
Range(s) == { s[i] : i \in 1..Len(s) }

\* Iterator::collect: advance until the iterator reports exhaustion
RECURSIVE collect(_)
collect(iter) ==
    LET r == Iterator_next(iter)
    IN  IF r.ret.some THEN << r.ret.v >> \o collect(r.iter) ELSE << >>

(***************************************************************************)
(* C1: with no limit (and the default recursive = true), find_all() yields *)
(* exactly the nodes of the root's subtree that satisfy every predicate,   *)
(* in document (pre-order) order, each exactly once: what it has yielded   *)
(* so far is always a prefix of that list, and all of it at exhaustion.    *)
(***************************************************************************)
C1_DocumentOrder ==
    (pc = "iter" /\ ~qb.limit.some /\ qb.recursive) =>
        /\ IsPrefix(out, Matching(qb))
        /\ Cardinality(Range(out)) = Len(out)
        /\ exhausted >= 1 => out = Matching(qb)

\* an exhausted two-predicate query from the document that skipped a node
\* and yielded nodes whose document order is not their creation order
C1_Witness ==
    /\ pc = "iter" /\ ~qb.limit.some /\ qb.recursive /\ exhausted >= 1
    /\ NumPreds(qb) = 2
    /\ Len(out) >= 2
    /\ \E i, j \in 1..Len(out) : i < j /\ out[i] > out[j]
    /\ \E n \in Subtree(qb.handle) : ~Satisfies(qb, n)

(***************************************************************************)
(* C2: with limit(n), find_all() yields exactly the first min(n, m) of the *)
(* m matches in document order, hence never more than n; once it has       *)
(* reported exhaustion every further advance reports exhaustion too; and   *)
(* limit(0) yields nothing.                                                *)
(***************************************************************************)
C2_Limit ==
    (pc = "iter" /\ qb.limit.some) =>
        LET n == qb.limit.v
            m == Len(Matching(qb))
        IN  /\ Len(out) <= n
            /\ IsPrefix(out, Matching(qb))
            /\ exhausted >= 1 =>
                  /\ out = SubSeq(Matching(qb), 1, Min(n, m))
                  /\ ~last.some
            /\ n = 0 => out = << >>

\* a limit smaller than the number of matches cut the results short, and
\* the iterator was advanced again after it reported exhaustion
C2_Witness ==
    /\ pc = "iter" /\ qb.limit.some
    /\ qb.limit.v >= 1
    /\ qb.limit.v < Len(Matching(qb))
    /\ Len(out) = qb.limit.v
    /\ exhausted >= 2

(***************************************************************************)
(* C3 as claimed: for any query, limit(0) included, find() returns none    *)
(* iff find_all() on the same builder yields nothing.                      *)
(***************************************************************************)
C3_Original ==
    pc = "found" =>
        (~found.some <=> collect(QueryBuilder_find_all(qb)) = << >>)

(***************************************************************************)
(* C3 amended: for any query whose limit is unset or at least 1, find()    *)
(* returns none iff find_all() on the same builder yields nothing; with    *)
(* limit(0) find() still returns the first match, because find() replaces  *)
(* the builder's limit by 1.                                               *)
(***************************************************************************)
C3_FindNoneIffEmpty ==
    pc = "found" =>
        /\ ~(qb.limit.some /\ qb.limit.v = 0) =>
              (~found.some <=> collect(QueryBuilder_find_all(qb)) = << >>)
        /\ (qb.limit.some /\ qb.limit.v = 0) =>
              (~found.some <=> Matching(qb) = << >>)

\* find() returned none on a builder with a limit of at least 1 although
\* the root's subtree holds nodes and one predicate is chained
C3_Witness ==
    /\ pc = "found" /\ ~found.some
    /\ qb.limit.some /\ qb.limit.v >= 1
    /\ NumPreds(qb) >= 1
    /\ Cardinality(Subtree(qb.handle)) >= 2

(***************************************************************************)
(* C4: find() returns the first match in document order: it returns what   *)
(* the same builder with limit(1) yields first from find_all() (none when  *)
(* that yields nothing), and the first element of the unlimited find_all() *)
(* when that is not empty; no match comes before it in document order.     *)
(***************************************************************************)
C4_FindIsFirst ==
    pc = "found" =>
        LET one == collect(QueryBuilder_find_all(QueryBuilder_limit(qb, 1)))
            all == collect(QueryBuilder_find_all([qb EXCEPT !.limit = NoneOpt]))
        IN  /\ found.some <=> one # << >>
            /\ found.some => found.v = one[1]
            /\ all # << >> => found = Some(all[1])
            /\ found.some =>
                  /\ found.v \in Scope(qb) /\ Satisfies(qb, found.v)
                  /\ \A n \in Scope(qb) : Satisfies(qb, n) => ~Precedes(n, found.v)

\* find() returned a node that is not the root, while a later match exists
\* and a node before it does not match
C4_Witness ==
    /\ pc = "found" /\ found.some
    /\ found.v # qb.handle
    /\ \E n \in Scope(qb) : Satisfies(qb, n) /\ Precedes(found.v, n)
    /\ \E n \in Scope(qb) : ~Satisfies(qb, n) /\ Precedes(n, found.v) /\ n # qb.handle

(***************************************************************************)
(* SpecKinds: queries by tag over trees with nodes of every variant.       *)
(***************************************************************************)
InitKinds ==
    InitOn({DoctypeData, TextData, CommentData, PIData, ElementA}, {ElementA, ElementB})

NextKinds ==
    \/ \E p \in {BoolPattern(FALSE), BoolPattern(TRUE), StrPattern(S_a)} : Tag(p)
    \/ Limit(MaxLimit)
    \/ Recursive(TRUE)
    \/ FindAll
    \/ Find
    \/ Advance

SpecKinds == InitKinds /\ [][NextKinds]_vars

Kinds(S) == { data(n).kind : n \in S }
TagQueries(b) == { i \in 1..Len(b.queries) : b.queries[i].type = "TagQuery" }

(***************************************************************************)
(* C5: a query with no predicates, only options, matches every node:       *)
(* find_all() yields every node of the subtree, the root and the nodes     *)
(* that are not Elements included, in document order (the first n of them  *)
(* under limit(n)).                                                        *)
(***************************************************************************)
C5_NoPredicatesMatchAll ==
    NumPreds(qb) = 0 =>
        /\ \A n \in Nodes : QueryWrapper_matches(qb.queries, data(n))
        /\ pc = "iter" =>
              LET all == InDocumentOrder(Subtree(qb.handle))
                  upto == IF qb.limit.some THEN Min(qb.limit.v, Len(all)) ELSE Len(all)
              IN  /\ IsPrefix(out, all)
                  /\ exhausted >= 1 => out = SubSeq(all, 1, upto)
        /\ pc = "found" => found = Some(qb.handle)

\* an exhausted query with no predicates yielded the whole tree, the
\* Document and three nodes of three other variants, none an Element
C5_Witness ==
    /\ pc = "iter" /\ NumPreds(qb) = 0 /\ exhausted >= 1
    /\ Len(out) = MaxNodes
    /\ out[1] = Document
    /\ "Element" \notin Kinds(Range(out))
    /\ Cardinality(Kinds(Range(out))) >= 4

(***************************************************************************)
(* C6: with a tag(p) predicate chained, every node yielded or found is an  *)
(* Element whose local name satisfies p; a node that is not an Element is  *)
(* never yielded, not even for the pattern true (which yields exactly the  *)
(* Elements), and the pattern false yields nothing.                        *)
(***************************************************************************)
C6_TagYieldsElements ==
    LET results == Range(out) \cup (IF pc = "found" /\ found.some THEN {found.v} ELSE {})
    IN  /\ \A i \in TagQueries(qb) : \A n \in results :
              /\ data(n).kind = "Element"
              /\ Pattern_matches(qb.queries[i].inner, data(n).name)
        /\ (\E i \in TagQueries(qb) : qb.queries[i].inner = BoolPattern(FALSE)) =>
              results = {}
        /\ (pc = "iter" /\ exhausted >= 1 /\ ~qb.limit.some
              /\ qb.queries = << TagQuery_new(BoolPattern(TRUE)), Unit >>) =>
              Range(out) = { n \in Subtree(qb.handle) : data(n).kind = "Element" }

\* tag(true) over a tree with two nodes that are not Elements yielded
\* Elements of two names and was exhausted
C6_Witness ==
    /\ pc = "iter" /\ exhausted >= 1
    /\ qb.queries = << TagQuery_new(BoolPattern(TRUE)), Unit >>
    /\ Cardinality({ n \in Subtree(qb.handle) : data(n).kind # "Element" }) >= 2
    /\ Cardinality({ data(n).name : n \in Range(out) }) = 2

(***************************************************************************)
(* SpecAttr: one attribute query on a document holding one Element, as in  *)
(* the test multiple_value_attr: <e attrs>text</e>.  The Element's name    *)
(* and attribute names range over the names is_multiple knows, in either   *)
(* letter case, and over names it does not know; attribute values range    *)
(* over the strings of at most MaxValLen characters of ValueChars.         *)
(***************************************************************************)
S_id == << "i", "d" >>
S_div == << "d", "i", "v" >>
S_p == << "p" >>
S_A == << "A" >>
S_Link == << "L", "i", "n", "k" >>
S_CLASS == << "C", "L", "A", "S", "S" >>
S_Rel == << "R", "e", "l" >>
S_X == << "X" >>
S_x_nbsp_y == << "x", "U+00A0", "y" >>

ElementNames ==
    { S_a, S_link, S_tr, S_th, S_form, S_object, S_area, S_icon, S_iframe,
      S_output, S_div, S_p, S_A, S_Link }
AttributeNames ==
    { S_class, S_accesskey, S_dropzone, S_rel, S_rev, S_headers,
      S_accept_charset, S_archive, S_sizes, S_sandbox, S_for, S_id,
      S_CLASS, S_Rel }

ValueChars == { "x", "y", "X", " ", "U+00A0" }

RECURSIVE StringsUpTo(_)
StringsUpTo(n) ==
    IF n = 0 THEN { << >> }
    ELSE LET shorter == StringsUpTo(n - 1)
         IN  shorter \cup { Append(w, c) : w \in shorter, c \in ValueChars }

\* every pair of names, with a two-token value
TableElements ==
    { Element(e, << Attribute(a, S_x_y) >>) : e \in ElementNames, a \in AttributeNames }

\* every value, on a list-aware and on a plain attribute, alone or followed
\* by a second attribute id="x"
ValueElements ==
    LET second == Attribute(S_id, S_x)
    IN  UNION { { Element(S_p, << Attribute(a, v) >>),
                  Element(S_p, << Attribute(a, v), second >>) } :
                a \in {S_class, S_id}, v \in StringsUpTo(MaxValLen) }

\* the document <e attrs>text...</e>
ElementDocument(e) ==
    Tree([n \in 2..MaxNodes |-> IF n = 2 THEN Document ELSE 2],
         [n \in 2..MaxNodes |-> IF n = 2 THEN e ELSE TextData])

InitAttr ==
    /\ dom \in { ElementDocument(e) : e \in TableElements \cup ValueElements }
    /\ qb = QueryBuilder_new(Document)
    /\ it = NoIter
    /\ out = << >>
    /\ last = NoneOpt
    /\ exhausted = 0
    /\ found = NoneOpt
    /\ pc = "build"
    /\ it2 = NoIter
    /\ out2 = << >>
    /\ walk = NoWalk
    /\ seen = NoSeen
    /\ called = NoCall

KeyPatterns == { BoolPattern(TRUE), StrPattern(S_id), StrPattern(S_class) }
ValuePatterns ==
    { BoolPattern(FALSE), StrPattern(<< >>), BoolPattern(TRUE),
      StrPattern(S_x), StrPattern(S_y), StrPattern(S_X),
      StrPattern(S_x_y), StrPattern(S_x_nbsp_y) }

NextAttr ==
    \/ \E k \in KeyPatterns, v \in ValuePatterns : NumPreds(qb) = 0 /\ Attr(k, v)
    \/ \E k \in KeyPatterns : NumPreds(qb) = 0 /\ AttrName(k)
    \/ \E v \in ValuePatterns : NumPreds(qb) = 0 /\ AttrValue(v)
    \/ \E v \in ValuePatterns : NumPreds(qb) = 0 /\ Class(v)
    \/ Find

SpecAttr == InitAttr /\ [][NextAttr]_vars

(***************************************************************************)
(* What the attribute claims speak of: the table of list-aware pairs, the  *)
(* equality of names ignoring letter case, and the pieces of a value       *)
(* between separators of a whitespace set ws.                              *)
(***************************************************************************)
SameIgnoringCase(s, t) ==
    /\ Len(s) = Len(t)
    /\ \A i \in 1..Len(s) :
          \/ s[i] = t[i]
          \/ \E l \in 1..Len(Lower) : {s[i], t[i]} = {Lower[l], Upper[l]}

AnyElementListAttrs == << S_class, S_accesskey, S_dropzone >>
ListAwarePairs ==
    << << S_a, S_rel >>, << S_a, S_rev >>, << S_link, S_rel >>, << S_link, S_rev >>,
      << S_tr, S_headers >>, << S_th, S_headers >>, << S_form, S_accept_charset >>,
      << S_object, S_archive >>, << S_area, S_rel >>, << S_icon, S_sizes >>,
      << S_iframe, S_sandbox >>, << S_output, S_for >> >>

ListAware(element_name, attribute_name) ==
    \/ \E k \in 1..Len(AnyElementListAttrs) :
          SameIgnoringCase(attribute_name, AnyElementListAttrs[k])
    \/ \E k \in 1..Len(ListAwarePairs) :
          /\ SameIgnoringCase(element_name, ListAwarePairs[k][1])
          /\ SameIgnoringCase(attribute_name, ListAwarePairs[k][2])

\* the maximal runs of v free of characters of ws, the empty runs between
\* two separators or at an end included
Pieces(v, ws) ==
    { SubSeq(v, ij[1] + 1, ij[2]) :
        ij \in { x \in (0..Len(v)) \X (0..Len(v)) :
                    /\ x[1] <= x[2]
                    /\ x[1] = 0 \/ v[x[1]] \in ws
                    /\ x[2] = Len(v) \/ v[x[2] + 1] \in ws
                    /\ \A k \in (x[1] + 1)..x[2] : v[k] \notin ws } }

\* the one Element of a document of SpecAttr, and the one query chained
TheElement == data(2)
TheQuery == Head(qb.queries)
Asked == pc = "found" /\ NumPreds(qb) = 1 /\ TheQuery.type = "AttrQuery"

(***************************************************************************)
(* C7: attr(k, v) matches a node iff it is an Element with one attribute   *)
(* whose name satisfies k and whose value satisfies v (some piece of it    *)
(* for a list-aware pair); on a pair that is not list-aware v is tested    *)
(* against the whole raw value, so a literal equal to one part of the      *)
(* value only does not match; a name match on one attribute and a value    *)
(* match on another do not make a match.                                   *)
(***************************************************************************)
C7_AttrMatch ==
    Asked =>
        LET e == TheElement
            hit(i) ==
                /\ Pattern_matches(TheQuery.key, e.attrs[i].name)
                /\ IF ListAware(e.name, e.attrs[i].name)
                   THEN \E t \in Pieces(e.attrs[i].value, UnicodeWhitespace) :
                           Pattern_matches(TheQuery.value, t)
                   ELSE Pattern_matches(TheQuery.value, e.attrs[i].value)
        IN  /\ found.some <=> \E i \in 1..Len(e.attrs) : hit(i)
            /\ found.some => found.v = 2
            /\ ( /\ TheQuery.value.type = "str"
                 /\ \A i \in 1..Len(e.attrs) :
                       \/ ~Pattern_matches(TheQuery.key, e.attrs[i].name)
                       \/ /\ ~ListAware(e.name, e.attrs[i].name)
                          /\ e.attrs[i].value # TheQuery.value.s )
               => ~found.some

\* attr("id", "x") on <p id="x y"> found nothing, though "x" is a part of
\* the value
C7_Witness ==
    /\ Asked /\ ~found.some
    /\ TheElement = Element(S_p, << Attribute(S_id, S_x_y) >>)
    /\ TheQuery = AttrQuery_new(StrPattern(S_id), StrPattern(S_x))
    /\ S_x \in Pieces(S_x_y, UnicodeWhitespace)

(***************************************************************************)
(* C8: on an Element whose attributes are all list-aware, attr(k, v)       *)
(* matches iff some whitespace-separated piece of the value of an          *)
(* attribute whose name satisfies k satisfies v, a literal v being compared*)
(* case-sensitively; the whole value need not satisfy v: class="x y" is    *)
(* matched by "x" and by "y", class="X y" by "X" and not by "x".           *)
(***************************************************************************)
C8_ListAwareTokens ==
    (Asked /\ \A i \in 1..Len(TheElement.attrs) :
                 ListAware(TheElement.name, TheElement.attrs[i].name)) =>
        LET e == TheElement
            named == { i \in 1..Len(e.attrs) :
                         Pattern_matches(TheQuery.key, e.attrs[i].name) }
        IN  /\ found.some <=>
                  \E i \in named : \E t \in Pieces(e.attrs[i].value, UnicodeWhitespace) :
                      Pattern_matches(TheQuery.value, t)
            /\ (named # {} /\ e.attrs[1].value = S_x_y
                  /\ TheQuery.value \in {StrPattern(S_x), StrPattern(S_y)}) => found.some
            /\ (named # {} /\ e.attrs[1].value = << "X", " ", "y" >>) =>
                  /\ TheQuery.value = StrPattern(S_X) => found.some
                  /\ TheQuery.value = StrPattern(S_x) => ~found.some

\* attr("class", "y") found <p class="x y">: the second token matched, the
\* whole value does not equal the pattern
C8_Witness ==
    /\ Asked /\ found = Some(2)
    /\ TheElement = Element(S_p, << Attribute(S_class, S_x_y) >>)
    /\ TheQuery = AttrQuery_new(StrPattern(S_class), StrPattern(S_y))

(***************************************************************************)
(* C9: the list-aware rule applies to exactly the pairs of the table (any  *)
(* element with class, accesskey or dropzone; a/link with rel or rev;      *)
(* tr/th with headers; form with accept-charset; object with archive; area *)
(* with rel; icon with sizes; iframe with sandbox; output with for),       *)
(* decided on the node's own element and attribute names, whatever the key *)
(* pattern, and ignoring the letter case of both: on a two-token value     *)
(* "x y" the literal "x" matches iff the pair is in the table.             *)
(***************************************************************************)
C9_ListAwarePairs ==
    /\ \A i \in 1..Len(TheElement.attrs) :
          is_multiple(TheElement.name, TheElement.attrs[i].name)
              <=> ListAware(TheElement.name, TheElement.attrs[i].name)
    /\ ( /\ Asked
         /\ Len(TheElement.attrs) = 1
         /\ TheElement.attrs[1].value = S_x_y
         /\ TheQuery.value = StrPattern(S_x)
         /\ Pattern_matches(TheQuery.key, TheElement.attrs[1].name) )
       => (found.some <=> ListAware(TheElement.name, TheElement.attrs[1].name))

\* attr(true, "x") found <A Rel="x y">: the pair (a, rel) of the table in
\* another letter case, the key pattern naming no attribute
C9_Witness ==
    /\ Asked /\ found = Some(2)
    /\ TheElement = Element(S_A, << Attribute(S_Rel, S_x_y) >>)
    /\ TheQuery = AttrQuery_new(BoolPattern(TRUE), StrPattern(S_x))

(***************************************************************************)
(* C10: the value of a list-aware attribute is split at ASCII whitespace   *)
(* only: a value whose only whitespace is a character that is whitespace   *)
(* in Unicode and not in ASCII, standing between two words, is one token,  *)
(* so a literal matches it iff it equals the whole value.                  *)
(***************************************************************************)
C10_AsciiWhitespaceOnly ==
    ( /\ Asked
      /\ Len(TheElement.attrs) = 1
      /\ ListAware(TheElement.name, TheElement.attrs[1].name)
      /\ Pattern_matches(TheQuery.key, TheElement.attrs[1].name)
      /\ TheQuery.value.type = "str"
      /\ LET v == TheElement.attrs[1].value
         IN  /\ Len(v) >= 3
             /\ v[1] \notin UnicodeWhitespace /\ v[Len(v)] \notin UnicodeWhitespace
             /\ \A k \in 1..Len(v) : v[k] \notin AsciiWhitespace
             /\ \E k \in 1..Len(v) : v[k] \in UnicodeWhitespace )
    => (found.some <=> TheQuery.value.s = TheElement.attrs[1].value)

(***************************************************************************)
(* C11: with recursive(false), find_all() yields exactly the matching      *)
(* nodes among the root and its direct children, in document order; no     *)
(* node two or more levels below the root is yielded, examined or given an *)
(* iterator.  With recursive(true) the nodes of every depth are examined.  *)
(***************************************************************************)
\* the root h and the nodes whose parent back-reference is h
RootAndChildren(h) == {h} \cup { n \in Nodes : dom[n].parent = Some(h) }

C11_NonRecursiveDepth ==
    /\ (pc = "iter" /\ ~qb.recursive) =>
          LET near == RootAndChildren(qb.handle)
          IN  /\ Range(out) \subseteq near
              /\ Range(it.evals) \subseteq near
              /\ { it.chain[i].handle : i \in 1..Len(it.chain) } = near
              /\ (exhausted >= 1 /\ ~qb.limit.some) =>
                    /\ out = InDocumentOrder({ n \in near : Satisfies(qb, n) })
                    /\ Range(it.evals) = near
    /\ (pc = "found" /\ ~qb.recursive /\ found.some) =>
          found.v \in RootAndChildren(qb.handle)
    /\ (pc = "iter" /\ qb.recursive /\ exhausted >= 1 /\ ~qb.limit.some) =>
          Range(it.evals) = Subtree(qb.handle)

\* an exhausted recursive(false) query yielded a child of the root and left
\* out a matching node two levels below the root
C11_Witness ==
    /\ pc = "iter" /\ ~qb.recursive /\ ~qb.limit.some /\ exhausted >= 1
    /\ NumPreds(qb) >= 1
    /\ \E n \in Range(out) : n # qb.handle
    /\ \E n \in Subtree(qb.handle) :
          /\ DepthBelow(qb.handle, n) >= 2
          /\ Satisfies(qb, n)
          /\ n \notin Range(out)

(***************************************************************************)
(* C12: the predicate stack is the logical AND of the predicates added,    *)
(* whatever the order they were added in: for predicates p and q a builder *)
(* with p then q matches a node iff the builder with q then p does, iff    *)
(* the node satisfies p and q, and both find_all() sequences are the same. *)
(***************************************************************************)
PredicateQueries ==
    << TagQuery_new(StrPattern(S_a)),
       TagQuery_new(BoolPattern(TRUE)),
       AttrQuery_new(StrPattern(S_class), StrPattern(S_x)),
       AttrQuery_new(StrPattern(S_class), StrPattern(S_y)),
       AttrQuery_new(BoolPattern(TRUE), StrPattern(S_y)) >>

\* builder b with its two predicates added in the other order
Swapped(b) ==
    [b EXCEPT !.queries = << b.queries[2], b.queries[1], b.queries[3] >>]

C12_ConjunctionCommutes ==
    /\ (pc = "build" /\ qb = QueryBuilder_new(Document)) =>
          \A i \in 1..Len(PredicateQueries) : \A j \in i..Len(PredicateQueries) :
              LET p == PredicateQueries[i]
                  q == PredicateQueries[j]
                  pq == push_query(push_query(qb, p), q)
                  qp == push_query(push_query(qb, q), p)
              IN  /\ \A n \in Nodes :
                        /\ QueryWrapper_matches(pq.queries, data(n))
                              <=> (Query_matches(p, data(n)) /\ Query_matches(q, data(n)))
                        /\ QueryWrapper_matches(pq.queries, data(n))
                              <=> QueryWrapper_matches(qp.queries, data(n))
                  /\ collect(QueryBuilder_find_all(pq)) = collect(QueryBuilder_find_all(qp))
                  /\ QueryBuilder_find(pq).ret = QueryBuilder_find(qp).ret
    /\ (pc = "iter" /\ NumPreds(qb) = 2) =>
          LET swapped == collect(QueryBuilder_find_all(Swapped(qb)))
          IN  /\ IsPrefix(out, swapped)
              /\ exhausted >= 1 => out = swapped
    /\ (pc = "found" /\ NumPreds(qb) = 2) =>
          found = QueryBuilder_find(Swapped(qb)).ret

\* an exhausted query with class added before tag yielded a node and left
\* out a node that satisfies the class predicate only and a node that
\* satisfies neither predicate
C12_Witness ==
    /\ pc = "iter" /\ exhausted >= 1 /\ NumPreds(qb) = 2
    /\ qb.queries[1].type = "TagQuery" /\ qb.queries[2].type = "AttrQuery"
    /\ out # << >>
    /\ \E n \in Scope(qb) \ {qb.handle} :
          ~Query_matches(qb.queries[1], data(n)) /\ ~Query_matches(qb.queries[2], data(n))
    /\ \E n \in Scope(qb) :
          ~Query_matches(qb.queries[1], data(n)) /\ Query_matches(qb.queries[2], data(n))

(***************************************************************************)
(* C13: every node a query started at handle h yields is h or a descendant *)
(* of h; no ancestor of h, no sibling and no other node outside h's        *)
(* subtree is yielded; and h itself comes first when it satisfies the      *)
(* predicates.                                                             *)
(***************************************************************************)
C13_WithinSubtree ==
    LET h == qb.handle
        results == Range(out) \cup (IF pc = "found" /\ found.some THEN {found.v} ELSE {})
    IN  /\ \A n \in results :
              /\ IsAncestorOrSelf(h, n)
              /\ n # h => ~IsAncestorOrSelf(n, h)
              /\ n # h => dom[n].parent # dom[h].parent
        /\ (pc = "iter" /\ Satisfies(qb, h)) =>
              /\ out # << >> => out[1] = h
              /\ (exhausted >= 1 /\ ~(qb.limit.some /\ qb.limit.v = 0)) => out # << >>
        /\ (pc = "found" /\ Satisfies(qb, h)) => found = Some(h)

\* an exhausted query started at a found element yielded that element first
\* and a descendant after it, while a sibling of the element matches too
C13_Witness ==
    /\ pc = "iter" /\ exhausted >= 1 /\ NumPreds(qb) >= 1
    /\ qb.handle # Document
    /\ Len(out) >= 2
    /\ out[1] = qb.handle
    /\ \E n \in Nodes :
          /\ n # qb.handle
          /\ dom[n].parent = dom[qb.handle].parent
          /\ Satisfies(qb, n)

(***************************************************************************)
(* SpecTwo: two iterators built from the same query on the same tree,      *)
(* advanced in any interleaving, and nested queries on yielded nodes run   *)
(* between the advances.                                                   *)
(***************************************************************************)
\* find_all() on the same query once more
FindAllAgain ==
    /\ pc = "iter"
    /\ it2.chain = << >>
    /\ it2' = QueryBuilder_find_all(qb)
    /\ UNCHANGED << dom, qb, it, out, last, exhausted, found, pc, out2, nodeops >>

\* mutant: the second iterator draws from the first iterator's cursor
Advance2_shared_cursor ==
    /\ pc = "iter"
    /\ it2.chain # << >>
    /\ LET r == Iterator_next(it)
       IN  /\ it' = r.iter
           /\ out2' = IF r.ret.some THEN Append(out2, r.ret.v) ELSE out2
    /\ UNCHANGED << dom, qb, it2, out, last, exhausted, found, pc, nodeops >>

\* one call of next() on the second iterator
Advance2 ==
    /\ pc = "iter"
    /\ it2.chain # << >>
    /\ LET r == Iterator_next(it2)
       IN  /\ it2' = r.iter
           /\ out2' = IF r.ret.some THEN Append(out2, r.ret.v) ELSE out2
    /\ UNCHANGED << dom, qb, it, out, last, exhausted, found, pc, nodeops >>

\* the nested query h.tag(true).find() on a node h
NestedFind(h) == QueryBuilder_find(QueryBuilder_tag(QueryBuilder_new(h), BoolPattern(TRUE))).ret

\* a nested query on a yielded node, while the iterators are live
Nested(h) ==
    /\ pc = "iter"
    /\ h \in Range(out) \cup Range(out2)
    /\ found' = NestedFind(h)
    /\ UNCHANGED << dom, qb, it, out, last, exhausted, pc, it2, out2, nodeops >>

NextTwo ==
    \/ Tag(StrPattern(S_a))
    \/ Limit(MaxLimit)
    \/ Recursive(FALSE)
    \/ FindAll
    \/ FindAllAgain
    \/ Advance
    \/ Advance2
    \/ \E h \in Nodes : Nested(h)

SpecTwo == Init /\ [][NextTwo]_vars

C15_LazyEvaluation ==
    pc \in {"iter", "found"} =>
        LET order == InDocumentOrder(Scope(qb))
            evals == it.evals
        IN  /\ IsPrefix(evals, order)
            /\ Cardinality(Range(evals)) = Len(evals)
            /\ (pc = "iter" /\ last.some) => evals[Len(evals)] = last.v
            /\ (pc = "iter" /\ out = << >> /\ exhausted = 0) => evals = << >>
            /\ (pc = "iter" /\ out # << >> /\ qb.limit.some /\ Len(out) = qb.limit.v) =>
                  evals[Len(evals)] = out[Len(out)]
            /\ (pc = "iter" /\ qb.limit.some /\ qb.limit.v = 0) => evals = << >>
            /\ (pc = "found" /\ found.some) => evals[Len(evals)] = found.v
            /\ (pc = "found" /\ ~found.some) => evals = order

\* limit(k) results are out and the iterator was advanced again, while a
\* matching node after the k-th result was never evaluated
C15_Witness ==
    /\ pc = "iter" /\ qb.limit.some /\ qb.limit.v >= 1
    /\ Len(out) = qb.limit.v
    /\ exhausted >= 1
    /\ NumPreds(qb) >= 1
    /\ \E n \in Scope(qb) : Satisfies(qb, n) /\ n \notin Range(it.evals)
    /\ \E n \in Range(it.evals) : ~Satisfies(qb, n)

(***************************************************************************)
(* SpecWalk: the iterators parents() and children() on a node of a tree    *)
(* with nodes of every variant.                                            *)
(***************************************************************************)
\* QueryBuilderExt::parents on node x
Parents(x) ==
    /\ walk.kind = "none"
    /\ walk' = NodeParentIter_new(x)
    /\ seen' = [start |-> x, items |-> << >>, nones |-> 0]
    /\ UNCHANGED << dom, querying, called >>

\* QueryBuilderExt::children on node x
Children(x) ==
    /\ walk.kind = "none"
    /\ walk' = NodeChildIter_new(x)
    /\ seen' = [start |-> x, items |-> << >>, nones |-> 0]
    /\ UNCHANGED << dom, querying, called >>

\* what an advance that returned r leaves in seen
Noted(r) ==
    IF r.ret.some
    THEN [seen EXCEPT !.items = Append(@, r.ret.v)]
    ELSE [seen EXCEPT !.nones = @ + 1]

\* one call of next() on a NodeParentIter
ParentsNext ==
    /\ walk.kind = "parents"
    /\ seen.nones <= MaxExtra
    /\ LET r == NodeParentIter_next(walk)
       IN  walk' = r.iter /\ seen' = Noted(r)
    /\ UNCHANGED << dom, querying, called >>

\* one call of next() on a NodeChildIter
ChildrenNext ==
    /\ walk.kind = "children"
    /\ seen.nones <= MaxExtra
    /\ LET r == NodeChildIter_next(walk)
       IN  walk' = r.iter /\ seen' = Noted(r)
    /\ UNCHANGED << dom, querying, called >>

NextWalk ==
    \/ \E x \in Nodes : Parents(x)
    \/ \E x \in Nodes : Children(x)
    \/ ParentsNext
    \/ ChildrenNext

SpecWalk == InitKinds /\ [][NextWalk]_vars

\* the node whose child list holds n
Owner(n) == CHOOSE c \in Nodes : n \in Range(children(c))

\* the ancestors of x read off the child lists, the nearest first
RECURSIVE AncestorsUp(_)
AncestorsUp(x) ==
    IF x = Document THEN << >> ELSE << Owner(x) >> \o AncestorsUp(Owner(x))

(***************************************************************************)
(* C16: parents() started at node x never yields x; it yields x's parent,  *)
(* grandparent and so on, the document last, and then reports exhaustion   *)
(* on every further advance; the number of items is the depth of x below   *)
(* the document.                                                           *)
(***************************************************************************)
C16_ParentsWalk ==
    walk.kind = "parents" =>
        LET x == seen.start
            up == AncestorsUp(x)
        IN  /\ seen.start \notin Range(seen.items)
            /\ IsPrefix(seen.items, up)
            /\ seen.nones >= 1 =>
                  /\ seen.items = up
                  /\ Len(seen.items) = DepthBelow(Document, x)
                  /\ x # Document => seen.items[Len(seen.items)] = Document
                  /\ ~NodeParentIter_next(walk).ret.some

\* parents() of a node three levels below the document yielded its three
\* ancestors and then reported exhaustion twice
C16_Witness ==
    /\ walk.kind = "parents"
    /\ DepthBelow(Document, seen.start) = 3
    /\ Len(seen.items) = 3
    /\ seen.nones >= 2

(***************************************************************************)
(* C17: children() of node x yields the direct children of x, of every    *)
(* variant, each once and in child-list order, and no grandchild; after   *)
(* the last child every further advance reports exhaustion; the size hint *)
(* is (0, number of children) and its upper bound is never smaller than   *)
(* the number of items still to come.                                     *)
(***************************************************************************)
C17_ChildrenWalk ==
    walk.kind = "children" =>
        LET x == seen.start
            kids == children(x)
            hint == NodeChildIter_size_hint(walk)
        IN  /\ IsPrefix(seen.items, kids)
            /\ \A i, j \in 1..Len(seen.items) :
                  seen.items[i] = seen.items[j] => i = j
            /\ \A i \in 1..Len(seen.items) : Owner(seen.items[i]) = x
            /\ seen.nones >= 1 =>
                  /\ seen.items = kids
                  /\ ~NodeChildIter_next(walk).ret.some
            /\ hint = << 0, Some(Len(kids)) >>
            /\ hint[2].v >= Len(kids) - Len(seen.items)

\* children() of a node that has a grandchild yielded its two or more
\* children, one of them not an Element, and then reported exhaustion twice
C17_Witness ==
    /\ walk.kind = "children"
    /\ Len(children(seen.start)) >= 2
    /\ Len(seen.items) = Len(children(seen.start))
    /\ \E i \in 1..Len(seen.items) : dom[seen.items[i]].data.kind # "Element"
    /\ \E n \in Nodes : n # Document /\ Owner(n) # Document
                          /\ Owner(Owner(n)) = seen.start
    /\ seen.nones >= 2

(***************************************************************************)
(* SpecNode: get(attr) and text() called on the nodes of a tree.  The      *)
(* trees are the one-Element documents of SpecAttr, whose Elements carry   *)
(* attribute names in either letter case and two attributes of one name,   *)
(* and trees of Text nodes of two contents, Comments and Elements.         *)
(***************************************************************************)
S_ID == << "I", "D" >>
\* a Text node as between two tags on lines of their own; no attribute value
\* and no Comment of the trees holds one of its characters
TextSpaced == NodeData("Text", << >>, << >>, << "\n", "u", "\n" >>)

TextLeaves == {TextData, TextSpaced, CommentData, ElementA}
TextInner == {ElementA, ElementB}

\* the names a caller asks get for
GetArgs == << S_id, S_ID, S_class, S_CLASS, S_Rel, S_x >>

InitNode ==
    /\ dom \in { ElementDocument(e) : e \in TableElements \cup ValueElements }
               \cup { t \in Trees(TextLeaves, TextInner) :
                        WellFormed(t, TextLeaves, TextInner) }
    /\ qb = QueryBuilder_new(Document)
    /\ it = NoIter
    /\ out = << >>
    /\ last = NoneOpt
    /\ exhausted = 0
    /\ found = NoneOpt
    /\ pc = "build"
    /\ it2 = NoIter
    /\ out2 = << >>
    /\ walk = NoWalk
    /\ seen = NoSeen
    /\ called = NoCall

\* NodeExt::get on node h
Get(h, attr) ==
    /\ called' = [node |-> h, value |-> NodeExt_get(h, attr),
                  method |-> "get", arg |-> attr]
    /\ UNCHANGED << dom, querying, walk, seen >>

\* NodeExt::text on node h; the String it returns is kept in value
Text(h) ==
    /\ called' = [node |-> h, value |-> Some(NodeExt_text(h)),
                  method |-> "text", arg |-> << >>]
    /\ UNCHANGED << dom, querying, walk, seen >>

NextNode ==
    \/ \E h \in Nodes : \E k \in 1..Len(GetArgs) : Get(h, GetArgs[k])
    \/ \E h \in Nodes : Text(h)

SpecNode == InitNode /\ [][NextNode]_vars

\* the positions of the attributes of node h whose name is attr up to
\* letter case
Named(h, attr) ==
    { i \in 1..Len(data(h).attrs) : SameIgnoringCase(data(h).attrs[i].name, attr) }

(***************************************************************************)
(* C18: get(attr) returns the value of the first attribute, in the order   *)
(* of the attribute list, whose name equals attr ignoring letter case;     *)
(* get(a) = get(b) whenever a and b differ only in letter case; it returns *)
(* none when no name equals attr ignoring case, and for every node that is *)
(* not an Element.                                                         *)
(***************************************************************************)
C18_GetFirstIgnoringCase ==
    called.method = "get" =>
        LET h == called.node
            hits == Named(h, called.arg)
        IN  /\ data(h).kind # "Element" => ~called.value.some
            /\ data(h).kind = "Element" /\ hits = {} => ~called.value.some
            /\ data(h).kind = "Element" /\ hits # {} =>
                  LET first == CHOOSE i \in hits : \A j \in hits : i <= j
                  IN  called.value = Some(data(h).attrs[first].value)
            /\ \A k \in 1..Len(GetArgs) :
                  SameIgnoringCase(called.arg, GetArgs[k]) =>
                      NodeExt_get(h, GetArgs[k]) = called.value

\* get was asked for a name in another letter case than the Element's two
\* attributes of that name, whose values differ, and returned a value
C18_Witness ==
    /\ called.method = "get"
    /\ data(called.node).kind = "Element"
    /\ Cardinality(Named(called.node, called.arg)) = 2
    /\ data(called.node).attrs[1].value # data(called.node).attrs[2].value
    /\ \A i \in Named(called.node, called.arg) :
          data(called.node).attrs[i].name # called.arg
    /\ called.value.some

\* the characters of the strings of sequence ss
Chars(ss) == UNION { Range(ss[i]) : i \in 1..Len(ss) }

\* the contents of the nodes of sequence ns, one after the other
RECURSIVE ContentsOf(_)
ContentsOf(ns) ==
    IF ns = << >> THEN << >>
    ELSE data(Head(ns)).contents \o ContentsOf(Tail(ns))

(***************************************************************************)
(* C19: text() of a node is the contents of the Text nodes of its subtree, *)
(* itself included, in document order, one after the other with nothing    *)
(* between them and nothing trimmed; the contents of Comment nodes and the *)
(* values of attributes do not appear in it.                               *)
(***************************************************************************)
C19_TextConcatenation ==
    called.method = "text" =>
        LET h == called.node
            texts == { n \in Subtree(h) : data(n).kind = "Text" }
            result == called.value.v
        IN  /\ result = ContentsOf(InDocumentOrder(texts))
            /\ \A n \in Subtree(h) :
                  /\ data(n).kind = "Comment" =>
                        Range(data(n).contents) \cap Range(result) = {}
                  /\ \A i \in 1..Len(data(n).attrs) :
                        Range(data(n).attrs[i].value) \cap Range(result) = {}

\* text() of the document of a tree with a Text node that begins and ends
\* with a line feed, then a Comment, then a Text node of other contents
C19_Witness ==
    /\ called.method = "text"
    /\ called.node = Document
    /\ \E t, c, u \in Nodes :
          /\ data(t) = TextSpaced /\ data(c).kind = "Comment" /\ data(u) = TextData
          /\ Precedes(t, c) /\ Precedes(c, u)
    /\ Len(called.value.v) = 4

(***************************************************************************)
(* C20: conjunction short-circuits on the first false: on a node the       *)
(* iterator evaluated the stack on, once a predicate of the stack has      *)
(* evaluated to false no further predicate of the stack is evaluated.  The *)
(* unit query at the bottom of the stack is not counted as a predicate.    *)
(***************************************************************************)
C20_ShortCircuit ==
    \A k \in 1..Len(it.evals) :
        LET node == data(it.evals[k])
            calls == QueryWrapper_calls(it.queries, node)
        IN  \A i \in 1..Len(calls) :
                ~Query_matches(calls[i], node) =>
                    \A j \in (i + 1)..Len(calls) : calls[j].type = "Unit"

SubtreeDepth(h) ==
    CHOOSE d \in 0..MaxNodes :
        /\ \E n \in Subtree(h) : DepthBelow(h, n) = d
        /\ \A n \in Subtree(h) : DepthBelow(h, n) <= d

(***************************************************************************)
(* C23: from find_all() to exhaustion the iterator holds no more per-node  *)
(* frames (NodeIterators not yet consumed) than the subtree is deep, plus  *)
(* the one of the root; in particular right after find_all(), before the   *)
(* first advance.                                                          *)
(***************************************************************************)
C23_FramesBoundedByDepth ==
    pc = "iter" =>
        Len(it.chain) - (it.cur - 1) <= SubtreeDepth(qb.handle) + 1

\* the predicates a caller may add to a builder
AddedPredicates(b) ==
    << QueryBuilder_tag(b, StrPattern(S_a)),
       QueryBuilder_attr(b, StrPattern(S_class), StrPattern(S_y)),
       QueryBuilder_attr_name(b, StrPattern(S_class)),
       QueryBuilder_attr_value(b, StrPattern(S_y)),
       QueryBuilder_class(b, StrPattern(S_x)) >>

\* the options of builder b
Options(b) == << b.handle, b.limit, b.recursive >>

\* what C24 says of the builder that is being chained on
C24_Builder ==
    pc = "build" =>
        /\ \A k \in 1..Len(AddedPredicates(qb)) :
              LET added == AddedPredicates(qb)[k]
              IN  /\ Options(added) = Options(qb)
                  /\ Tail(added.queries) = qb.queries
                  /\ \A n \in 0..MaxLimit :
                        /\ AddedPredicates(QueryBuilder_limit(qb, n))[k]
                              = QueryBuilder_limit(added, n)
                        /\ k = 1 =>
                              collect(QueryBuilder_find_all(
                                  QueryBuilder_tag(QueryBuilder_limit(qb, n),
                                                   StrPattern(S_a))))
                              = collect(QueryBuilder_find_all(
                                    [added EXCEPT !.limit = Some(n)]))
                  /\ \A b \in BOOLEAN :
                        AddedPredicates(QueryBuilder_recursive(qb, b))[k]
                            = QueryBuilder_recursive(added, b)
        /\ \A n, m \in 0..MaxLimit :
              /\ QueryBuilder_limit(qb, n).queries = qb.queries
              /\ QueryBuilder_limit(QueryBuilder_limit(qb, n), m).limit = Some(m)
        /\ \A b \in BOOLEAN : QueryBuilder_recursive(qb, b).queries = qb.queries
        /\ NumPreds(qb) = 0 /\ qb = QueryBuilder_new(qb.handle) =>
              ~qb.limit.some /\ qb.recursive

\* what C24 says of one chaining step
C24_Step ==
    (pc = "build" /\ pc' = "build") =>
        /\ qb'.handle = qb.handle
        /\ qb'.queries # qb.queries => Options(qb') = Options(qb)
        /\ Options(qb') # Options(qb) => qb'.queries = qb.queries
        /\ qb'.limit # qb.limit => qb'.limit.some

(***************************************************************************)
(* C24: adding a predicate leaves the builder's handle, limit and          *)
(* recursive flag as they were, and limit and recursive leave the          *)
(* predicates as they were, so limit(n) before a predicate and after it    *)
(* give the same builder and the same sequence; a new builder has no limit *)
(* and recursive = true; of two calls of limit the later one applies.      *)
(***************************************************************************)
C24_OptionsAndPredicates == []C24_Builder /\ [][C24_Step]_vars

\* a query with a predicate, a limit and recursive = false yielded a node
C24_Witness ==
    /\ pc = "iter"
    /\ NumPreds(qb) >= 1
    /\ qb.limit.some /\ qb.limit.v >= 1
    /\ ~qb.recursive
    /\ out # << >>

(***************************************************************************)
(* SpecParent: parent() called on the nodes of a tree, statement by        *)
(* statement, and parents() walks between the calls.  A handle is not      *)
(* shared between threads, so nothing else runs between the two            *)
(* statements of one call.                                                 *)
(***************************************************************************)
\* NodeExt::parent on node h up to `let parent = node.parent.take();`
ParentTake(h) ==
    /\ called.method # "parent_take"
    /\ called' = [node |-> h, value |-> dom[h].parent,
                  method |-> "parent_take", arg |-> << >>]
    /\ dom' = NodeExt_parent_take(h)
    /\ UNCHANGED << querying, walk, seen >>

\* the rest of NodeExt::parent: the parent is put back and upgraded
ParentSet ==
    /\ called.method = "parent_take"
    /\ dom' = NodeExt_parent_set(called.node, called.value)
    /\ called' = [node |-> called.node, value |-> Weak_upgrade(called.value),
                  method |-> "parent", arg |-> << >>]
    /\ UNCHANGED << querying, walk, seen >>

NextParent ==
    \/ \E h \in Nodes : ParentTake(h)
    \/ ParentSet
    \/ \E x \in Nodes : called.method # "parent_take" /\ Parents(x)
    \/ called.method # "parent_take" /\ ParentsNext

SpecParent == Init /\ [][NextParent]_vars

\* the parent back-reference of node n in the parsed tree
ParsedParent(n) == IF n = Document THEN NoneOpt ELSE Some(Owner(n))

(***************************************************************************)
(* C21: no operation writes to a node's parent cell: in every state, the   *)
(* states inside one operation included, every node's parent               *)
(* back-reference is the one of the parsed tree.                           *)
(***************************************************************************)
C21_NeverWritten ==
    \A n \in Nodes : dom[n].parent = ParsedParent(n)

(***************************************************************************)
(* C25: when parent() has returned, the node's parent back-reference is    *)
(* what it was before the call, in every node, and the call returned the   *)
(* node's parent, none for the document; a further call returns the same;  *)
(* a parents() walk among the calls yields the ancestors of its start node *)
(* and a query yields the nodes of the tree in document order.             *)
(***************************************************************************)
C25_ParentIsPure ==
    /\ called.method = "parent" =>
          /\ \A n \in Nodes : dom[n].parent = ParsedParent(n)
          /\ called.value = ParsedParent(called.node)
          /\ NodeExt_parent(called.node) = called.value
          /\ collect(QueryBuilder_find_all(QueryBuilder_new(Document)))
                = InDocumentOrder(Nodes)
    /\ (called.method = "parent" /\ walk.kind = "parents") =>
          /\ IsPrefix(seen.items, AncestorsUp(seen.start))
          /\ seen.nones >= 1 => seen.items = AncestorsUp(seen.start)

\* parent() of a node two levels or more below the document returned its
\* parent, and a parents() walk from the same node yielded its ancestors
\* and was exhausted
C25_Witness ==
    /\ called.method = "parent"
    /\ called.value.some /\ called.value.v # Document
    /\ walk.kind = "parents" /\ seen.start = called.node
    /\ seen.nones >= 1
    /\ Len(seen.items) >= 2

(***************************************************************************)
(* C26: the tokens of a list-aware attribute's value that are tested       *)
(* against the value pattern are its non-empty maximal runs free of        *)
(* whitespace, so a literal matches iff it is one of those runs, and the   *)
(* empty literal matches no value.                                         *)
(***************************************************************************)
C26_NonEmptyTokens ==
    ( /\ Asked
      /\ Len(TheElement.attrs) = 1
      /\ ListAware(TheElement.name, TheElement.attrs[1].name)
      /\ Pattern_matches(TheQuery.key, TheElement.attrs[1].name)
      /\ TheQuery.value.type = "str" )
    => LET runs == Pieces(TheElement.attrs[1].value, UnicodeWhitespace) \ { << >> }
       IN  /\ found.some <=> TheQuery.value.s \in runs
           /\ TheQuery.value.s = << >> => ~found.some

(***************************************************************************)
(* attrs() and display() (src/src/node_ext.rs:132-199).  Strings are       *)
(* ordered as Rust orders str: byte by byte, a proper prefix first.        *)
(***************************************************************************)
MaxAttrs == 2

\* the characters of the names and values below, in the order of their codes
ByteOrder ==
    << "\t", "\n", " ", "!", "\"", "-", "/", "1", "2", "<", "=", ">" >>
        \o Upper \o Lower

byte(c) == CHOOSE i \in 1..Len(ByteOrder) : ByteOrder[i] = c

\* Ord for str: s < t
str_lt(s, t) ==
    LET n == Min(Len(s), Len(t))
        diff == { i \in 1..n : s[i] # t[i] }
    IN  IF diff = {} THEN Len(s) < Len(t)
        ELSE LET i == CHOOSE k \in diff : \A j \in diff : k <= j
             IN  byte(s[i]) < byte(t[i])

\* x put into the sorted sequence v behind the strings that are not greater
insert_sorted(v, x) ==
    LET p == Cardinality({ i \in 1..Len(v) : ~str_lt(x, v[i]) })
    IN  SubSeq(v, 1, p) \o << x >> \o SubSeq(v, p + 1, Len(v))

\* [String]::sort
RECURSIVE sort(_)
sort(v) ==
    IF v = << >> THEN << >>
    ELSE insert_sorted(sort(SubSeq(v, 1, Len(v) - 1)), v[Len(v)])

\* [String]::join(" ")
RECURSIVE join_space(_)
join_space(v) ==
    IF v = << >> THEN << >>
    ELSE IF Len(v) = 1 THEN Head(v)
    ELSE Head(v) \o << " " >> \o join_space(Tail(v))

\* BTreeMap::insert on a map kept as its entries << key, value >> in the
\* order of the keys: the value of a key that is there is replaced
BTreeMap_insert(map, k, v) ==
    IF \E i \in 1..Len(map) : map[i][1] = k
    THEN [i \in 1..Len(map) |-> IF map[i][1] = k THEN << k, v >> ELSE map[i]]
    ELSE LET p == Cardinality({ i \in 1..Len(map) : str_lt(map[i][1], k) })
         IN  SubSeq(map, 1, p) \o << << k, v >> >> \o SubSeq(map, p + 1, Len(map))

\* Iterator::collect into a BTreeMap of the attributes from position i on
RECURSIVE BTreeMap_collect(_, _, _)
BTreeMap_collect(map, attrs, i) ==
    IF i > Len(attrs) THEN map
    ELSE BTreeMap_collect(BTreeMap_insert(map, attrs[i].name, attrs[i].value),
                          attrs, i + 1)

NodeExt_attrs(h) ==
    IF data(h).kind = "Element"
    THEN BTreeMap_collect(<< >>, data(h).attrs, 1)
    ELSE << >>

\* format!(r#"{}="{}""#, name, value)
format_attr(attr) == attr.name \o << "=", "\"" >> \o attr.value \o << "\"" >>

RECURSIVE NodeExt_display(_)
NodeExt_display(h) ==
    CASE data(h).kind = "Element" ->
            LET c == join_empty([i \in 1..Len(children(h)) |->
                                    NodeExt_display(children(h)[i])])
                a == join_space(sort([i \in 1..Len(data(h).attrs) |->
                                         format_attr(data(h).attrs[i])]))
                name == data(h).name
            IN  IF a = << >>
                THEN << "<" >> \o name \o << ">" >> \o c
                        \o << "<", "/" >> \o name \o << ">" >>
                ELSE << "<" >> \o name \o << " " >> \o a \o << ">" >> \o c
                        \o << "<", "/" >> \o name \o << ">" >>
      [] data(h).kind = "Text" -> data(h).contents
      [] data(h).kind = "Comment" ->
            << "<", "!", "-", "-" >> \o data(h).contents \o << "-", "-", ">" >>
      [] OTHER -> << >>

(***************************************************************************)
(* SpecShow: get, attrs() and display() called on the nodes of a document  *)
(* <div attrs>...</div> whose Element has up to MaxAttrs attributes out of *)
(* ShownAttributes and whose children are Text, Comment and Element nodes. *)
(***************************************************************************)
S_a_b == << "a", "-", "b" >>
S_1 == << "1" >>
S_2 == << "2" >>

ShownAttributes ==
    << Attribute(S_a, S_1), Attribute(S_a_b, S_2), Attribute(S_b, S_1),
       Attribute(S_id, S_1), Attribute(S_id, S_2), Attribute(S_ID, S_2) >>

\* the attribute lists of at most n of ShownAttributes, none of them twice
AttributeLists(n) ==
    { [i \in 1..Len(ix) |-> ShownAttributes[ix[i]]] :
        ix \in { x \in UNION { [1..m -> 1..Len(ShownAttributes)] : m \in 0..n } :
                    \A i, j \in 1..Len(x) : x[i] = x[j] => i = j } }

ShownDocuments ==
    { Tree([n \in 2..MaxNodes |-> IF n = 2 THEN Document ELSE 2],
           [n \in 2..MaxNodes |-> IF n = 2 THEN Element(S_div, l) ELSE lab[n]]) :
        l \in AttributeLists(MaxAttrs),
        lab \in [3..MaxNodes -> {TextData, CommentData, ElementB}] }

InitShow ==
    /\ dom \in ShownDocuments
    /\ qb = QueryBuilder_new(Document)
    /\ it = NoIter
    /\ out = << >>
    /\ last = NoneOpt
    /\ exhausted = 0
    /\ found = NoneOpt
    /\ pc = "build"
    /\ it2 = NoIter
    /\ out2 = << >>
    /\ walk = NoWalk
    /\ seen = NoSeen
    /\ called = NoCall

\* NodeExt::attrs on node h; the map it returns is kept in value
Attrs(h) ==
    /\ called' = [node |-> h, value |-> Some(NodeExt_attrs(h)),
                  method |-> "attrs", arg |-> << >>]
    /\ UNCHANGED << dom, querying, walk, seen >>

\* NodeExt::display on node h; the String it returns is kept in value
Display(h) ==
    /\ called' = [node |-> h, value |-> Some(NodeExt_display(h)),
                  method |-> "display", arg |-> << >>]
    /\ UNCHANGED << dom, querying, walk, seen >>

\* the names a caller asks get for
ShownArgs == << S_a, S_a_b, S_id, S_ID >>

NextShow ==
    \/ \E h \in Nodes : \E k \in 1..Len(ShownArgs) : Get(h, ShownArgs[k])
    \/ \E h \in Nodes : Attrs(h)
    \/ \E h \in Nodes : Display(h)

SpecShow == InitShow /\ [][NextShow]_vars

(***************************************************************************)
(* C27: attrs() and get() agree: for every key k of the map attrs()        *)
(* returned, get(k) is the value the map has for k.                        *)
(***************************************************************************)
C27_AttrsAgreesWithGet ==
    called.method = "attrs" =>
        LET map == called.value.v
        IN  \A i \in 1..Len(map) :
                NodeExt_get(called.node, map[i][1]) = Some(map[i][2])

\* the display of the attributes of map in the order of its keys
RECURSIVE InKeyOrder(_)
InKeyOrder(map) ==
    IF map = << >> THEN << >>
    ELSE << " " >> \o Head(map)[1] \o << "=", "\"" >> \o Head(map)[2] \o << "\"" >>
            \o InKeyOrder(Tail(map))

(***************************************************************************)
(* C28: display() of an Element whose attributes have different names      *)
(* lists them as name="value" in the order of the names, the order of the  *)
(* keys of attrs(), whatever the order they were parsed in.                *)
(***************************************************************************)
C28_DisplayInNameOrder ==
    ( /\ called.method = "display"
      /\ data(called.node).kind = "Element"
      /\ \A i, j \in 1..Len(data(called.node).attrs) :
            data(called.node).attrs[i].name = data(called.node).attrs[j].name => i = j )
    => LET h == called.node
           inner == join_empty([i \in 1..Len(children(h)) |->
                                   NodeExt_display(children(h)[i])])
       IN  called.value.v =
              << "<" >> \o data(h).name \o InKeyOrder(NodeExt_attrs(h)) \o << ">" >>
                 \o inner \o << "<", "/" >> \o data(h).name \o << ">" >>

====
